---------------------------- MODULE Spec2Model ----------------------------
(***************************************************************************)
(* AI Fitness Health Analyzer.                                             *)
(*                                                                         *)
(* Two programs are modelled:                                              *)
(*   - the App shell's route table (<Routes> with six <Route> children),   *)
(*     rendered by react-router-dom v6: the route branches are ranked by   *)
(*     score, the first ranked branch whose pattern matches the location   *)
(*     is displayed, patterns match case-insensitively and ignore trailing *)
(*     slashes, and path parameters are URI-decoded;                       *)
(*   - repush_to_github.bat, run by cmd.exe: a %var% inside a              *)
(*     parenthesised block is expanded when the block is read, before any  *)
(*     command of the block runs.                                          *)
(*                                                                         *)
(* A request path is a sequence of symbols: the separator "/" or a word    *)
(* (a run of characters holding no "/").  Adjacent words form one path     *)
(* segment.                                                                *)
(***************************************************************************)
EXTENDS Naturals, Sequences, FiniteSets, TLC

VARIABLES
    location,       \* router: the current request path (location.pathname)
    content,        \* router: the page elements displayed in the content region
    params,         \* router: the path parameters of the displayed match
    tabLocation,    \* a second, independent instance of the App: its path
    tabContent,     \* ... and what it displays
    pc,             \* script: the line cmd.exe executes next
    errorlevel,     \* script: cmd.exe's ERRORLEVEL
    commit_message, \* script: the environment variable commit_message
    typed,          \* script: what the user typed at the set /p prompt
    prompted,       \* script: whether the set /p prompt was shown
    block,          \* script: the %var% values expanded when a block was read
    log,            \* script: the git commands executed, with their exit status
    out,            \* script: the messages echoed
    exitStatus,     \* script: the exit status of the script, once it ended
    dotGit          \* script: whether the working directory holds a .git entry

routerVars == <<location, content, params>>
tabVars == <<tabLocation, tabContent>>
scriptVars == <<pc, errorlevel, commit_message, typed, prompted, block, log, out,
                exitStatus, dotGit>>
vars == <<routerVars, tabVars, scriptVars>>

(***************************************************************************)
(* Bounds of the model.                                                    *)
(***************************************************************************)
MaxPathLen == 5

\* The longest path the two-instance specification builds symbol by symbol.
MaxTabPathLen == 2

(***************************************************************************)
(* Request paths.                                                          *)
(***************************************************************************)
Slash == "/"

\* The words request paths are built from: the static segments of the route
\* table, one of them in another case, a number, and a percent-escaped word.
Words == {"upload", "UPLOAD", "dashboard", "history", "about", "42", "a%20b"}

Symbols == {Slash} \cup Words

\* Paths named by the interface table and the scenarios, reachable in one step
\* whatever the current location is (the links of a page, a typed URL).
Links ==
    { <<"/">>,
      <<"/", "upload">>,
      <<"/", "dashboard", "/", "42">>,
      <<"/", "history">>,
      <<"/", "about">>,
      <<"/", "nonexistent">>,
      <<"/", "dashboard">>,
      <<"/", "dashboard", "/", "1", "/", "2">> }

(***************************************************************************)
(* The route table, in source order.  A pattern is the symbol sequence of  *)
(* the path attribute; ":id" is a dynamic segment and "*" the splat.       *)
(***************************************************************************)
RouteTable ==
    << [path |-> <<"/">>,                        element |-> "HomePage"],
       [path |-> <<"/", "upload">>,              element |-> "UploadPage"],
       [path |-> <<"/", "dashboard", "/", ":id">>, element |-> "DashboardPage"],
       [path |-> <<"/", "history">>,             element |-> "HistoryPage"],
       [path |-> <<"/", "about">>,               element |-> "AboutPage"],
       [path |-> <<"*">>,                        element |-> "NotFoundPage"] >>

Splat == "*"

IsDynamic(sym) == sym = ":id"

ParamName(sym) == IF sym = ":id" THEN "id" ELSE sym

\* String.prototype.toLowerCase on the words of the model (the "i" flag of the
\* compiled pattern).
Lower(w) == IF w = "UPLOAD" THEN "upload" ELSE w

\* Mutant: the captured segment is bound as written, not decoded.
DecodeNothing(w) == w

\* decodeURIComponent on the words of the model: "%20" is a space; a word with
\* no escape is unchanged.
DecodeURIComponent(w) == IF w = "a%20b" THEN "a b" ELSE w

\* joinPaths(["", path]): the absolute form of a route path.
JoinPaths(path) == IF path # <<>> /\ path[1] = Slash THEN path ELSE <<Slash>> \o path

\* The number of segments of path.split("/"): one more than the separators.
RECURSIVE CountSlashes(_)
CountSlashes(path) ==
    IF path = <<>> THEN 0
    ELSE (IF path[1] = Slash THEN 1 ELSE 0) + CountSlashes(Tail(path))

\* The number of empty segments of path.split("/").
RECURSIVE CountEmpty(_, _)
CountEmpty(path, prevSlash) ==
    IF path = <<>> THEN (IF prevSlash THEN 1 ELSE 0)
    ELSE IF path[1] = Slash
         THEN (IF prevSlash THEN 1 ELSE 0) + CountEmpty(Tail(path), TRUE)
         ELSE CountEmpty(Tail(path), FALSE)

IsSplat(sym) == sym = Splat

IsStatic(sym) == sym # Slash /\ sym # Splat /\ ~IsDynamic(sym)

CountSplat(path) == Cardinality({i \in DOMAIN path : IsSplat(path[i])})

CountDynamic(path) == Cardinality({i \in DOMAIN path : IsDynamic(path[i])})

CountStatic(path) == Cardinality({i \in DOMAIN path : IsStatic(path[i])})

\* computeScore: segments.length, the splat penalty (-2), then 3 for a dynamic
\* segment, 1 for an empty one and 10 for a static one.  Kept non-negative by
\* adding the penalty's size to every score.
ComputeScore(path) ==
    LET joined == JoinPaths(path)
        nSeg == CountSlashes(joined) + 1
        hasSplat == CountSplat(joined) > 0
    IN  2 + nSeg - (IF hasSplat THEN 2 ELSE 0)
          + 3 * CountDynamic(joined)
          + CountEmpty(joined, TRUE)
          + 10 * CountStatic(joined)

\* rankRouteBranches: by score, highest first; equal scores keep source order.
Before(i, j) ==
    \/ ComputeScore(RouteTable[i].path) > ComputeScore(RouteTable[j].path)
    \/ /\ ComputeScore(RouteTable[i].path) = ComputeScore(RouteTable[j].path)
       /\ i < j

RECURSIVE RankFrom(_)
RankFrom(rest) ==
    IF rest = {} THEN <<>>
    ELSE LET first == CHOOSE i \in rest : \A j \in rest \ {i} : Before(i, j)
         IN  <<first>> \o RankFrom(rest \ {first})

RankRouteBranches == RankFrom(DOMAIN RouteTable)

\* Mutant: the splat is read as a literal segment.
SplatIsLiteral(path) == FALSE

\* compilePath: the pattern without its trailing "/", "/*" or "*", with a
\* leading "/"; and whether it ends with the splat.
EndsWithSplat(path) == path # <<>> /\ path[Len(path)] = Splat

RECURSIVE StripTrailingSlashes(_)
StripTrailingSlashes(path) ==
    IF path # <<>> /\ path[Len(path)] = Slash
    THEN StripTrailingSlashes(SubSeq(path, 1, Len(path) - 1))
    ELSE path

CompilePath(path) ==
    LET noSplat == IF EndsWithSplat(path) THEN SubSeq(path, 1, Len(path) - 1)
                   ELSE path
    IN  JoinPaths(StripTrailingSlashes(noSplat))

\* The end of the run of words of pathname that starts at j: [^\/]+ is greedy.
RECURSIVE RunEnd(_, _)
RunEnd(pathname, j) ==
    IF j <= Len(pathname) /\ pathname[j] # Slash THEN RunEnd(pathname, j + 1)
    ELSE j - 1

\* The captured run as one URI-decoded string.
RECURSIVE DecodeRun(_, _, _)
DecodeRun(pathname, j, k) ==
    IF j > k THEN ""
    ELSE DecodeURIComponent(pathname[j]) \o DecodeRun(pathname, j + 1, k)

\* Mutant: the compiled pattern is not anchored at the end of the path.
NotAnchored(pathname, j) == TRUE

AllSlashes(pathname, j) == \A n \in j..Len(pathname) : pathname[n] = Slash

NoMatch == [ok |-> FALSE, params |-> <<>>]

\* The compiled pattern pat from position i against pathname from position j.
\* After the pattern: anything when the pattern ends with the splat, else only
\* trailing slashes.
RECURSIVE MatchFrom(_, _, _, _, _, _)
MatchFrom(pat, splat, i, pathname, j, got) ==
    IF i > Len(pat)
    THEN IF splat \/ AllSlashes(pathname, j)
         THEN [ok |-> TRUE, params |-> got]
         ELSE NoMatch
    ELSE IF j > Len(pathname) THEN NoMatch
    ELSE IF IsDynamic(pat[i])
         THEN LET k == RunEnd(pathname, j)
              IN  IF k < j THEN NoMatch
                  ELSE MatchFrom(pat, splat, i + 1, pathname, k + 1,
                                 Append(got, [name |-> ParamName(pat[i]),
                                              value |-> DecodeRun(pathname, j, k)]))
         ELSE IF Lower(pat[i]) = Lower(pathname[j])
              THEN MatchFrom(pat, splat, i + 1, pathname, j + 1, got)
              ELSE NoMatch

\* A pattern that is only the splat matches the rest after the initial "/";
\* the pattern "/" is the initial "/" followed by trailing slashes.
MatchPath(path, pathname) ==
    MatchFrom(CompilePath(path), EndsWithSplat(path), 1, pathname, 1, <<>>)

\* matchRoutes: the first branch, in rank order, whose pattern matches.
RECURSIVE FirstMatch(_, _)
FirstMatch(ranked, pathname) ==
    IF ranked = <<>> THEN <<>>
    ELSE IF MatchPath(RouteTable[ranked[1]].path, pathname).ok
         THEN <<ranked[1]>>
         ELSE FirstMatch(Tail(ranked), pathname)

MatchRoutes(pathname) == FirstMatch(RankRouteBranches, pathname)

\* Mutant: every route whose pattern matches is displayed, in source order.
RECURSIVE AllMatching(_, _)
AllMatching(i, pathname) ==
    IF i > Len(RouteTable) THEN <<>>
    ELSE (IF MatchPath(RouteTable[i].path, pathname).ok
          THEN <<RouteTable[i].element>> ELSE <<>>) \o AllMatching(i + 1, pathname)

DisplayEveryMatch(pathname) == AllMatching(1, pathname)

\* <Routes>: the element of the matched route, or nothing when none matches.
RoutesElement(pathname) ==
    LET m == MatchRoutes(pathname)
    IN  IF m = <<>> THEN <<>> ELSE <<RouteTable[m[1]].element>>

\* useParams() in the displayed element.
RoutesParams(pathname) ==
    LET m == MatchRoutes(pathname)
    IN  IF m = <<>> THEN <<>> ELSE MatchPath(RouteTable[m[1]].path, pathname).params

\* Mutant: a path no declared route matches leaves the displayed page in place.
KeepPageOnMiss(old, pathname) ==
    IF RoutesElement(pathname) = <<"NotFoundPage">> THEN old
    ELSE RoutesElement(pathname)

\* The content region after a navigation: <Routes> replaces what it displayed.
Render(old, pathname) == RoutesElement(pathname)

\* The paths a navigation can ask for from the current location: a link, or
\* the current path with one more symbol.
RequestsUpTo(from, maxLen) ==
    Links \cup {Append(from, s) : s \in {t \in Symbols : Len(from) < maxLen}}

Requests(from) == RequestsUpTo(from, MaxPathLen)

TabRequests(from) == RequestsUpTo(from, MaxTabPathLen)


(***************************************************************************)
(* The App: mounted once at "/", then one navigation event at a time.      *)
(***************************************************************************)
RouterInit ==
    /\ location = <<"/">>
    /\ content = RoutesElement(<<"/">>)
    /\ params = RoutesParams(<<"/">>)

\* The second instance is loaded at another URL.
TabInit ==
    /\ tabLocation = <<"/", "history">>
    /\ tabContent = RoutesElement(<<"/", "history">>)

\* navigate(path): the location changes and <Routes> renders for it.
Navigate(path) ==
    /\ location' = path
    /\ content' = Render(content, path)
    /\ params' = RoutesParams(path)
    /\ UNCHANGED <<tabVars, scriptVars>>

\* navigate(path) in the second instance of the App, among the links only.
TabNavigate(path) ==
    /\ tabLocation' = path
    /\ tabContent' = Render(tabContent, path)
    /\ UNCHANGED <<routerVars, scriptVars>>


(***************************************************************************)
(* repush_to_github.bat.                                                   *)
(***************************************************************************)
\* The exit statuses an external command is given: success, a failure, and
\* git's status for a fatal error.
ExitCodes == {0, 1, 128}

\* line 37, without the emoji the message starts with
DefaultMessage ==
    "Update: Complete AI Fitness Health Analyzer with all components and fixes"

\* What the user can type at the prompt; "" is a bare Enter.
TypedMessages == {"", "fix typo"}

\* The script has no setlocal: commit_message is read from the environment of
\* the cmd.exe session, where it is undefined ("") or left by an earlier run.
InheritedMessages == {"", DefaultMessage, "fix typo"}

\* Mutant: only status 1 is taken for a missing git.
GitMissingOnlyOne(el) == el = 1

\* if %errorlevel% neq 0 (line 7)
GitMissing(el) == el # 0

\* if not exist .git (line 15)
NotARepository(exists) == ~exists

\* if %errorlevel% neq 0 (line 32)
HasStagedChanges(el) == el # 0

\* if "%commit_message%"=="" (line 36), on the text the block was read with
MessageIsEmpty(text) == text = ""

\* Mutant: the fallback branch is taken whatever the push returned.
PushNeverSucceeded(el) == FALSE

\* if %errorlevel% equ 0 (line 54)
PushSucceeded(el) == el = 0

\* if %errorlevel% equ 0 (line 93), on the text the block was read with
RegularPushSucceeded(text) == text = 0

\* An external command ran: it is recorded and sets ERRORLEVEL.
Ran(cmd, msg, rc) == log' = Append(log, [cmd |-> cmd, msg |-> msg, rc |-> rc])

\* exit /b 1
ExitB1 ==
    /\ pc' = "exited"
    /\ errorlevel' = 1
    /\ exitStatus' = 1

ScriptInit ==
    /\ pc = "L6"
    /\ errorlevel = 0
    /\ commit_message \in InheritedMessages
    /\ typed = ""
    /\ prompted = FALSE
    /\ block = [commit_message |-> "", errorlevel |-> 0]
    /\ log = <<>>
    /\ out = {}
    /\ exitStatus = 0
    /\ dotGit \in BOOLEAN

\* line 6: git --version >nul 2>&1
GitVersion ==
    /\ pc = "L6"
    /\ \E rc \in ExitCodes : Ran("version", "", rc) /\ errorlevel' = rc
    /\ pc' = "L7"
    /\ UNCHANGED <<commit_message, typed, prompted, block, out, exitStatus, dotGit>>
    /\ UNCHANGED <<routerVars, tabVars>>

\* lines 7-12: the guard on git
GuardGit ==
    /\ pc = "L7"
    /\ IF GitMissing(errorlevel)
       THEN /\ out' = out \cup {"Error: Git is not installed or not in your PATH."}
            /\ ExitB1
       ELSE /\ pc' = "L15"
            /\ UNCHANGED <<out, errorlevel, exitStatus>>
    /\ UNCHANGED <<commit_message, typed, prompted, block, log, dotGit>>
    /\ UNCHANGED <<routerVars, tabVars>>

\* lines 15-20: the guard on the repository
GuardRepository ==
    /\ pc = "L15"
    /\ IF NotARepository(dotGit)
       THEN /\ out' = out \cup {"Error: Not a git repository."}
            /\ ExitB1
       ELSE /\ pc' = "L23"
            /\ UNCHANGED <<out, errorlevel, exitStatus>>
    /\ UNCHANGED <<commit_message, typed, prompted, block, log, dotGit>>
    /\ UNCHANGED <<routerVars, tabVars>>

\* line 23: git status --porcelain
GitStatus ==
    /\ pc = "L23"
    /\ \E rc \in ExitCodes : Ran("status", "", rc) /\ errorlevel' = rc
    /\ pc' = "L27"
    /\ UNCHANGED <<commit_message, typed, prompted, block, out, exitStatus, dotGit>>
    /\ UNCHANGED <<routerVars, tabVars>>

\* line 27: git add .
GitAdd ==
    /\ pc = "L27"
    /\ \E rc \in ExitCodes : Ran("add", "", rc) /\ errorlevel' = rc
    /\ pc' = "L31"
    /\ UNCHANGED <<commit_message, typed, prompted, block, out, exitStatus, dotGit>>
    /\ UNCHANGED <<routerVars, tabVars>>

\* line 31: git diff --cached --quiet
GitDiffCached ==
    /\ pc = "L31"
    /\ \E rc \in ExitCodes : Ran("diff", "", rc) /\ errorlevel' = rc
    /\ pc' = "L32"
    /\ UNCHANGED <<commit_message, typed, prompted, block, out, exitStatus, dotGit>>
    /\ UNCHANGED <<routerVars, tabVars>>

\* line 32: cmd.exe reads the whole if ( ... ) else ( ... ) of lines 32-45 and
\* expands %commit_message% in it, then tests the condition.
IfStagedChanges ==
    /\ pc = "L32"
    /\ block' = [block EXCEPT !.commit_message = commit_message]
    /\ IF HasStagedChanges(errorlevel)
       THEN /\ out' = out \cup {"Creating commit with latest changes..."}
            /\ pc' = "L34"
       ELSE /\ out' = out \cup {"No changes detected to commit."}
            /\ pc' = "L47"
    /\ UNCHANGED <<errorlevel, commit_message, typed, prompted, log, exitStatus,
                   dotGit>>
    /\ UNCHANGED <<routerVars, tabVars>>

\* line 34: set /p commit_message="Enter commit message ...": a bare Enter
\* leaves the variable as it was and sets ERRORLEVEL to 1.
PromptMessage ==
    /\ pc = "L34"
    /\ prompted' = TRUE
    /\ \E t \in TypedMessages :
          /\ typed' = t
          /\ commit_message' = IF t = "" THEN commit_message ELSE t
          /\ errorlevel' = IF t = "" THEN 1 ELSE errorlevel
    /\ pc' = "L36"
    /\ UNCHANGED <<block, log, out, exitStatus, dotGit>>
    /\ UNCHANGED <<routerVars, tabVars>>

\* lines 36-38: the default message, decided on the text expanded at line 32
DefaultIfEmpty ==
    /\ pc = "L36"
    /\ commit_message' = IF MessageIsEmpty(block.commit_message)
                         THEN DefaultMessage
                         ELSE commit_message
    /\ pc' = "L40"
    /\ UNCHANGED <<errorlevel, typed, prompted, block, log, out, exitStatus, dotGit>>
    /\ UNCHANGED <<routerVars, tabVars>>

\* line 40: git commit -m "%commit_message%", with the text expanded at line
\* 32.  git refuses an empty message ("Aborting commit due to empty commit
\* message") with status 1.
GitCommit ==
    /\ pc = "L40"
    /\ \E rc \in ExitCodes :
          /\ block.commit_message = "" => rc = 1
          /\ Ran("commit", block.commit_message, rc)
          /\ errorlevel' = rc
    /\ pc' = "L47"
    /\ UNCHANGED <<commit_message, typed, prompted, block, out, exitStatus, dotGit>>
    /\ UNCHANGED <<routerVars, tabVars>>

\* lines 47-48: git branch --show-current
GitBranch ==
    /\ pc = "L47"
    /\ \E rc \in ExitCodes : Ran("branch", "", rc) /\ errorlevel' = rc
    /\ pc' = "L52"
    /\ UNCHANGED <<commit_message, typed, prompted, block, out, exitStatus, dotGit>>
    /\ UNCHANGED <<routerVars, tabVars>>

\* line 52: git push --force-with-lease origin main
GitPushForceWithLease ==
    /\ pc = "L52"
    /\ \E rc \in ExitCodes : Ran("push --force-with-lease", "", rc) /\ errorlevel' = rc
    /\ pc' = "L54"
    /\ UNCHANGED <<commit_message, typed, prompted, block, out, exitStatus, dotGit>>
    /\ UNCHANGED <<routerVars, tabVars>>

\* line 54: cmd.exe reads the whole if ( ... ) else ( ... ) of lines 54-102 and
\* expands the %errorlevel% of line 93 in it, then tests the condition.
IfPushSucceeded ==
    /\ pc = "L54"
    /\ block' = [block EXCEPT !.errorlevel = errorlevel]
    /\ IF PushSucceeded(errorlevel)
       THEN /\ out' = out \cup {"Successfully re-pushed to GitHub!"}
            /\ pc' = "L61"
       ELSE /\ out' = out \cup {"Failed to push to GitHub."}
            /\ pc' = "L91"
    /\ UNCHANGED <<errorlevel, commit_message, typed, prompted, log, exitStatus,
                   dotGit>>
    /\ UNCHANGED <<routerVars, tabVars>>

\* lines 61-79: git log --oneline -5, then the deployment guidance
GitLog ==
    /\ pc = "L61"
    /\ \E rc \in ExitCodes : Ran("log", "", rc) /\ errorlevel' = rc
    /\ out' = out \cup {"Next Steps - Deploy for FREE:"}
    /\ pc' = "L104"
    /\ UNCHANGED <<commit_message, typed, prompted, block, exitStatus, dotGit>>
    /\ UNCHANGED <<routerVars, tabVars>>

\* lines 90-91: git push origin main
GitPush ==
    /\ pc = "L91"
    /\ \E rc \in ExitCodes : Ran("push", "", rc) /\ errorlevel' = rc
    /\ out' = out \cup {"Trying regular push..."}
    /\ pc' = "L93"
    /\ UNCHANGED <<commit_message, typed, prompted, block, exitStatus, dotGit>>
    /\ UNCHANGED <<routerVars, tabVars>>

\* lines 93-101: the condition is on the text expanded at line 54.  The block
\* it guards holds line 94's echo, then "else (" read as a command named else
\* (not found: ERRORLEVEL 9009), then the echoes of lines 96-100.
IfRegularPushSucceeded ==
    /\ pc = "L93"
    /\ IF RegularPushSucceeded(block.errorlevel)
       THEN /\ out' = out \cup {"Regular push successful!",
                                "Regular push also failed. Manual intervention needed."}
            /\ errorlevel' = 9009
       ELSE UNCHANGED <<out, errorlevel>>
    /\ pc' = "L104"
    /\ UNCHANGED <<commit_message, typed, prompted, block, log, exitStatus, dotGit>>
    /\ UNCHANGED <<routerVars, tabVars>>

\* lines 104-109: echo, pause, start <url>, pause, and the end of the file.
\* echo and pause leave ERRORLEVEL alone; start leaves it alone when the URL
\* is opened and sets 9059 when it cannot be.  The script's exit status is the
\* ERRORLEVEL at the end of the file.
OpenGitHub ==
    /\ pc = "L104"
    /\ out' = out \cup {"Repository updated! Opening GitHub..."}
    /\ \E opened \in BOOLEAN :
          /\ errorlevel' = IF opened THEN errorlevel ELSE 9059
          /\ exitStatus' = errorlevel'
    /\ pc' = "exited"
    /\ UNCHANGED <<commit_message, typed, prompted, block, log, dotGit>>
    /\ UNCHANGED <<routerVars, tabVars>>


(***************************************************************************)
(* The specifications.                                                     *)
(***************************************************************************)
\* What the other program's variables hold while one program runs.
ScriptIdle ==
    /\ pc = "L6"
    /\ errorlevel = 0
    /\ commit_message = ""
    /\ typed = ""
    /\ prompted = FALSE
    /\ block = [commit_message |-> "", errorlevel |-> 0]
    /\ log = <<>>
    /\ out = {}
    /\ exitStatus = 0
    /\ dotGit = TRUE

Init == RouterInit /\ TabInit /\ ScriptIdle

Next == \E path \in Requests(location) : Navigate(path)

\* The App, one instance.
Spec == Init /\ [][Next]_vars

TabsNext ==
    \/ \E path \in TabRequests(location) : Navigate(path)
    \/ \E path \in TabRequests(tabLocation) : TabNavigate(path)

\* Two instances of the App, each with its own navigation history.
TabsSpec == Init /\ [][TabsNext]_vars

ScriptStart == RouterInit /\ TabInit /\ ScriptInit

ScriptNext ==
    \/ GitVersion
    \/ GuardGit
    \/ GuardRepository
    \/ GitStatus
    \/ GitAdd
    \/ GitDiffCached
    \/ IfStagedChanges
    \/ PromptMessage
    \/ DefaultIfEmpty
    \/ GitCommit
    \/ GitBranch
    \/ GitPushForceWithLease
    \/ IfPushSucceeded
    \/ GitLog
    \/ GitPush
    \/ IfRegularPushSucceeded
    \/ OpenGitHub

\* One run of the script.
ScriptSpec == ScriptStart /\ [][ScriptNext]_vars

(***************************************************************************)
(* The claims about the route table (Spec, TabsSpec).                      *)
(***************************************************************************)
\* "/dashboard/<s>": one non-empty segment after "/dashboard/".
IsDashboardPath(p) ==
    /\ Len(p) >= 4
    /\ SubSeq(p, 1, 3) = <<"/", "dashboard", "/">>
    /\ \A n \in 4..Len(p) : p[n] # Slash

\* The text of the segment s of "/dashboard/<s>", as written in the path.
RECURSIVE SegmentText(_, _)
SegmentText(p, n) == IF n > Len(p) THEN "" ELSE p[n] \o SegmentText(p, n + 1)

\* The same text with the escape %20 replaced by the space it stands for.
RECURSIVE SegmentUnescaped(_, _)
SegmentUnescaped(p, n) ==
    IF n > Len(p) THEN ""
    ELSE (IF p[n] = "a%20b" THEN "a b" ELSE p[n]) \o SegmentUnescaped(p, n + 1)

HasEscape(p) == \E n \in DOMAIN p : p[n] = "a%20b"

\* The entries of the route table whose pattern matches the path.
MatchingEntries(p) ==
    {i \in DOMAIN RouteTable : MatchPath(RouteTable[i].path, p).ok}

DeclaredEntries == {i \in DOMAIN RouteTable : RouteTable[i].path # <<"*">>}

\* C1: each of the five declared paths displays its page, once, and no other
\* page with it: "/" Home, "/upload" Upload, "/dashboard/<s>" Dashboard,
\* "/history" History, "/about" About.
C1_DeclaredPathsDisplayTheirPage ==
    /\ location = <<"/">> => content = <<"HomePage">>
    /\ location = <<"/", "upload">> => content = <<"UploadPage">>
    /\ IsDashboardPath(location) => content = <<"DashboardPage">>
    /\ location = <<"/", "history">> => content = <<"HistoryPage">>
    /\ location = <<"/", "about">> => content = <<"AboutPage">>

C1_Witness ==
    /\ location = <<"/", "dashboard", "/", "42", "about">>
    /\ content = <<"DashboardPage">>

\* C2: a path that matches none of the five declared patterns displays
\* NotFoundPage: the content region is neither empty nor another page.
C2_UnmatchedPathsDisplayNotFound ==
    /\ MatchingEntries(location) \cap DeclaredEntries = {}
          => content = <<"NotFoundPage">>
    /\ location \in { <<"/", "nonexistent">>,
                      <<"/", "dashboard">>,
                      <<"/", "dashboard", "/", "1", "/", "2">>,
                      <<"/", "dashboard", "/">>,
                      <<"/", "/", "upload">>,
                      <<"/", "upload", "/", "42">>,
                      <<"/", "upload", "42">> }
          => content = <<"NotFoundPage">>

C2_Witness ==
    /\ location = <<"/", "dashboard", "/", "1", "/", "2">>
    /\ content = <<"NotFoundPage">>

\* C3 as claimed: the table has six entries, the last is the wildcard, and
\* exactly one entry matches the request path.
C3_ExactlyOneEntryMatches ==
    /\ Len(RouteTable) = 6
    /\ RouteTable[Len(RouteTable)].path = <<"*">>
    /\ Cardinality(MatchingEntries(location)) = 1

\* C3, amended: the table has six entries, the last is the wildcard; the
\* wildcard matches every request path, at most one declared entry matches
\* it, and exactly one entry is displayed: the declared entry that matches,
\* else the wildcard's.
C3_ExactlyOneEntrySelected ==
    /\ Len(RouteTable) = 6
    /\ RouteTable[Len(RouteTable)].path = <<"*">>
    /\ Len(RouteTable) \in MatchingEntries(location)
    /\ Cardinality(MatchingEntries(location) \cap DeclaredEntries) <= 1
    /\ Len(content) = 1
    /\ \A i \in MatchingEntries(location) \cap DeclaredEntries :
          content[1] = RouteTable[i].element
    /\ MatchingEntries(location) \cap DeclaredEntries = {}
          => content[1] = RouteTable[Len(RouteTable)].element

C3_Witness ==
    /\ MatchingEntries(location) = {2, Len(RouteTable)}
    /\ content = <<"UploadPage">>

C5_IdIsTheSegment ==
    IsDashboardPath(location) =>
        /\ content = <<"DashboardPage">>
        /\ params = <<[name |-> "id", value |-> SegmentText(location, 4)]>>

\* C5, amended: "/dashboard/<s>" displays DashboardPage with id bound to the
\* URI-decoded s: exactly s when s holds no percent-escape, and s with each
\* escape replaced by its character otherwise.
C5_IdIsTheDecodedSegment ==
    IsDashboardPath(location) =>
        /\ content = <<"DashboardPage">>
        /\ Len(params) = 1
        /\ params[1].name = "id"
        /\ ~HasEscape(location) => params[1].value = SegmentText(location, 4)
        /\ params[1].value = SegmentUnescaped(location, 4)

C5_Witness ==
    /\ location = <<"/", "dashboard", "/", "a%20b">>
    /\ params = <<[name |-> "id", value |-> "a b"]>>

(***************************************************************************)
(* The claims about the push script (ScriptSpec).                          *)
(***************************************************************************)
Executed(cmds) == {i \in DOMAIN log : log[i].cmd \in cmds}

Pushes == {"push --force-with-lease", "push"}

\* The place of a command in the order add, commit, push.
Stage(cmd) == IF cmd = "add" THEN 1 ELSE IF cmd = "commit" THEN 2 ELSE 3

\* C6: the plain push runs only after the force-with-lease push ran and
\* failed, at most once, and no push follows it; at most two pushes in a
\* run, and exactly one in a finished run whose force-with-lease push exited 0.
C6_OneFallbackPushOnly ==
    /\ \A i \in Executed({"push"}) :
          /\ \E j \in Executed({"push --force-with-lease"}) :
                j < i /\ log[j].rc # 0
          /\ \A k \in Executed(Pushes) : k <= i
    /\ Cardinality(Executed({"push"})) <= 1
    /\ Cardinality(Executed(Pushes)) <= 2
    /\ \A j \in Executed({"push --force-with-lease"}) :
          log[j].rc = 0 /\ pc = "exited" => Cardinality(Executed(Pushes)) = 1

C6_Witness ==
    /\ pc = "exited"
    /\ Cardinality(Executed(Pushes)) = 2
    /\ log[Len(log)].cmd = "push"

\* C7: with staged changes the script commits with the message typed at the
\* prompt, or with the default message after a bare Enter; without staged
\* changes it makes no commit and shows no prompt.
C7_CommitsWithTheTypedMessage ==
    /\ \A i \in Executed({"commit"}) :
          log[i].msg = IF typed = "" THEN DefaultMessage ELSE typed
    /\ \A d \in Executed({"diff"}) :
          /\ log[d].rc # 0 /\ Executed(Pushes) # {} => Executed({"commit"}) # {}
          /\ log[d].rc = 0 => Executed({"commit"}) = {} /\ ~prompted

\* C8: on every run that reaches the push step, the exit status of the
\* script is the exit status of the last git push it executed.
C8_ExitsWithThePushStatus ==
    pc = "exited" /\ Executed(Pushes) # {} =>
        \E last \in Executed(Pushes) :
            /\ \A k \in Executed(Pushes) : k <= last
            /\ exitStatus = log[last].rc

\* C9: after the plain push the script prints "Regular push successful!" if
\* and only if that push exited 0, and the "Regular push also failed"
\* guidance if and only if it exited non-zero.
C9_ReportsThePlainPushOutcome ==
    pc = "exited" =>
        \A i \in Executed({"push"}) :
            /\ "Regular push successful!" \in out <=> log[i].rc = 0
            /\ "Regular push also failed. Manual intervention needed." \in out
                  <=> log[i].rc # 0

\* C10: when git is missing or the directory has no .git entry the script
\* prints an error and exits with status 1 having run no git add, commit or
\* push; add, commit and push run only after both guards passed, in the
\* order add, commit, push.
C10_GuardsComeFirst ==
    /\ \A v \in Executed({"version"}) :
          log[v].rc # 0 /\ pc \notin {"L7"} =>
              /\ pc = "exited" /\ exitStatus = 1
              /\ "Error: Git is not installed or not in your PATH." \in out
              /\ Executed({"add", "commit"} \cup Pushes) = {}
    /\ ~dotGit /\ pc \notin {"L6", "L7", "L15"} =>
          /\ pc = "exited" /\ exitStatus = 1
          /\ \/ "Error: Not a git repository." \in out
             \/ "Error: Git is not installed or not in your PATH." \in out
          /\ Executed({"add", "commit"} \cup Pushes) = {}
    /\ \A i \in Executed({"add", "commit"} \cup Pushes) :
          /\ dotGit
          /\ \E v \in Executed({"version"}) : v < i /\ log[v].rc = 0
          /\ \A j \in Executed({"add", "commit"} \cup Pushes) :
                j < i => Stage(log[j].cmd) <= Stage(log[i].cmd)
    /\ \A i \in Executed({"commit"} \cup Pushes) : \E a \in Executed({"add"}) : a < i

C10_Witness ==
    /\ pc = "exited"
    /\ exitStatus = 1
    /\ "Error: Not a git repository." \in out
    /\ Executed({"add", "commit"} \cup Pushes) = {}

=============================================================================
